---- MODULE Spec2Model ----
(***************************************************************************)
(* Model of the settings synchronisation engine of cursor-settings-sync:   *)
(* the gist discovery (GitHubService.findExistingGist), the push           *)
(* (SyncService.pushConfiguration / replaceGistWithMerge and the           *)
(* GitHubService requests), the cleanup of old gists, and the two pulls    *)
(* (PullManager.pullConfiguration and SyncService.pullConfiguration).      *)
(* In the overlapping specification a push advances one request at a time, *)
(* as the dashboard does not await the pushes it starts.                   *)
(*                                                                         *)
(* File names and extension names are sequences of tokens, so that the     *)
(* prefix, suffix and substring tests of the code are computed; file       *)
(* contents are sequences of one-character strings.                        *)
(***************************************************************************)
EXTENDS Integers, Sequences, FiniteSets, TLC

\* ------------------------------------------------------------------ bounds

\* the longest gist list drawn for the discovery specification
MaxListLen == 3

\* the number of gists the pushes of one behaviour may create
MaxCreated == 2

\* the number of pushes and pulls of one behaviour
MaxOps == 2

\* the number of local edits and configuration changes of one behaviour
MaxEdits == 1

\* the longest file content drawn for the classification specification
MaxLen == 3

\* ------------------------------------------------------- program constants

\* github.gistId: null
NoId == 0

\* ---------------------------------------------------------- configuration

\* the fields of the loaded configuration that the request bodies are built
\* from
VARIABLES
    personalAccessToken,  \* config.github.personalAccessToken
    includedDirectories   \* config.includedDirectories, the saved selection

\* ------------------------------------------------------------- file names

STORAGE == <<"cursor-git-sync-", "storage", ".json">>
TIMESTAMP == <<"timestamp", ".json">>

SettingsJson == <<"settings", ".json">>
KeybindingsJson == <<"keybindings", ".json">>
NotesTxt == <<"notes", ".txt">>
Snippets == <<"snippets">>
SnippetsJson == <<"snippets", ".json">>
SnippetsA == <<"snippets", "/", "a", ".json">>
SyncManifest == <<"cursor-git-sync-", "manifest", ".json">>

\* String.prototype.startsWith over token sequences
StartsWith(s, p) == Len(p) <= Len(s) /\ SubSeq(s, 1, Len(p)) = p

\* String.prototype.includes, for a one-token needle
Includes(s, tok) == \E i \in 1..Len(s) : s[i] = tok

\* the two special files of a gist
IsSpecial(fileName) == fileName = STORAGE \/ fileName = TIMESTAMP

\* ---------------------------------------------------------- file contents

IsSpace(c) == c \in {" ", "\n", "\r", "\t"}

RECURSIVE TrimLeft(_)
TrimLeft(s) == IF s # <<>> /\ IsSpace(Head(s)) THEN TrimLeft(Tail(s)) ELSE s

RECURSIVE TrimRight(_)
TrimRight(s) ==
    IF s # <<>> /\ IsSpace(s[Len(s)]) THEN TrimRight(SubSeq(s, 1, Len(s) - 1)) ELSE s

\* String.prototype.trim
Trim(s) == TrimRight(TrimLeft(s))

EndsWithNewline(s) == s # <<>> /\ s[Len(s)] = "\n"

\* content.replace(/\r\n/g, '\n').replace(/\r/g, '\n')
RECURSIVE NormalizeLineEndings(_)
NormalizeLineEndings(s) ==
    IF s = <<>> THEN <<>>
    ELSE IF Head(s) = "\r" /\ Len(s) >= 2 /\ s[2] = "\n"
         THEN <<"\n">> \o NormalizeLineEndings(Tail(Tail(s)))
    ELSE IF Head(s) = "\r" THEN <<"\n">> \o NormalizeLineEndings(Tail(s))
    ELSE <<Head(s)>> \o NormalizeLineEndings(Tail(s))

\* ------------------------------------------------------- the configuration

\* extensionName of getDefaultConfig
ExtensionName == <<"cursor", "-", "settings", "-", "sync">>
OtherCursorName == <<"cursor", "-", "other">>
UnrelatedName == <<"notes">>
NoName == <<>>

\* values of config.github.personalAccessToken, as sequences of tokens
Token1 == <<"ghp_", "1">>
Token2 == <<"ghp_", "2">>

Me == "me"
Other == "other"
NoUser == ""

\* ------------------------------------------------------------------ gists

\* a field that is undefined has no entry in the JSON text; one that is
\* defined has its value
Undefined == <<>>
Defined(value) == <<value>>

\* The content of cursor-git-sync-storage.json of a gist: "absent" (no such
\* file), "empty" (the file entry has no content), "bad" (JSON.parse
\* throws) or "config" (it parses to a configuration record, here without
\* a token and without a selection).
StorageFile(kind, ext, user) ==
    [kind |-> kind, extensionName |-> ext, username |-> user,
     personalAccessToken |-> Undefined, includedDirectories |-> Undefined]
NoStorage == StorageFile("absent", NoName, NoUser)
EmptyStorage == StorageFile("empty", NoName, NoUser)
BadStorage == StorageFile("bad", NoName, NoUser)
ConfigStorage(ext, user) == StorageFile("config", ext, user)

\* The content of timestamp.json of a gist, likewise; files is the list of
\* file names it records.  The optional includedDirectories of
\* TimestampData is set by no code that writes the file.
TimestampFile(kind, ext, files) ==
    [kind |-> kind, extensionName |-> ext, files |-> files,
     includedDirectories |-> Undefined]
NoTimestamp == TimestampFile("absent", NoName, {})
EmptyTimestamp == TimestampFile("empty", NoName, {})
BadTimestamp == TimestampFile("bad", NoName, {})
DataTimestamp(ext, files) == TimestampFile("data", ext, files)

Gist(id, storage, timestamp, files) ==
    [id |-> id, storage |-> storage, timestamp |-> timestamp, files |-> files]

\* the empty map of file names to contents
NoFiles == [n \in {} |-> <<>>]

\* JSON.parse(content) of the storage file returns (and does not throw)
StorageParses(g) == g.storage.kind = "config"

\* ------------------------------------------------------------- discovery

Min(S) == CHOOSE x \in S : \A y \in S : x <= y

\* the id of the first gist of the list among those at the indices I, or null
FirstMatch(gists, I) == IF I = {} THEN NoId ELSE gists[Min(I)].id

\* the indices of a list
Indices(gists) == 1..Len(gists)

\* Priority 1: both identification files, and the storage file parses to
\* the extension name of this configuration
Priority1(g, extensionName) ==
    /\ g.storage.kind # "absent"
    /\ g.timestamp.kind # "absent"
    /\ g.storage.kind # "empty"
    /\ StorageParses(g)
    /\ g.storage.extensionName = extensionName

\* Priority 2: the storage file alone, with the extension name
Priority2(g, extensionName) ==
    /\ g.storage.kind # "absent"
    /\ g.storage.kind # "empty"
    /\ StorageParses(g)
    /\ g.storage.extensionName = extensionName

\* a Priority 3 that does not compare the user name
Priority3AnyUser(g, username) ==
    /\ g.storage.kind # "absent"
    /\ StorageParses(g)
    /\ g.storage.extensionName # NoName
    /\ \/ Includes(g.storage.extensionName, "cursor")
       \/ Includes(g.storage.extensionName, "git")
       \/ Includes(g.storage.extensionName, "sync")

\* Priority 3: the same user name and a cursor-related extension name
Priority3(g, username) ==
    /\ g.storage.kind # "absent"
    /\ StorageParses(g)
    /\ g.storage.username = username
    /\ g.storage.extensionName # NoName
    /\ \/ Includes(g.storage.extensionName, "cursor")
       \/ Includes(g.storage.extensionName, "git")
       \/ Includes(g.storage.extensionName, "sync")

\* Priority 4: any gist with a storage file
Priority4(g) == g.storage.kind # "absent"

\* a discovery without Priority 2
findExistingGistNoPriority2(listOk, gists, extensionName, username) ==
    IF ~listOk THEN NoId
    ELSE LET p1 == FirstMatch(gists, {i \in Indices(gists) : Priority1(gists[i], extensionName)})
             p3 == IF username # NoUser
                   THEN FirstMatch(gists, {i \in Indices(gists) : Priority3(gists[i], username)})
                   ELSE NoId
             p4 == FirstMatch(gists, {i \in Indices(gists) : Priority4(gists[i])})
         IN IF p1 # NoId THEN p1
            ELSE IF p3 # NoId THEN p3
            ELSE p4

\* GitHubService.findExistingGist: listOk is whether the list request
\* succeeded, gists its answer.
findExistingGist(listOk, gists, extensionName, username) ==
    IF ~listOk THEN NoId
    ELSE LET p1 == FirstMatch(gists, {i \in Indices(gists) : Priority1(gists[i], extensionName)})
             p2 == FirstMatch(gists, {i \in Indices(gists) : Priority2(gists[i], extensionName)})
             p3 == IF username # NoUser
                   THEN FirstMatch(gists, {i \in Indices(gists) : Priority3(gists[i], username)})
                   ELSE NoId
             p4 == FirstMatch(gists, {i \in Indices(gists) : Priority4(gists[i])})
         IN IF p1 # NoId THEN p1
            ELSE IF p2 # NoId THEN p2
            ELSE IF p3 # NoId THEN p3
            ELSE p4

\* ------------------------------------------------------- the remote store

\* getAuthHeader throws: no Authorization header
NoHeader == <<>>

\* GitHubService.getAuthHeader: the token of the configuration when it is
\* not blank, else process.env.GITHUB_TOKEN when it is set
getAuthHeader(token, env) ==
    IF token # <<>> /\ Trim(token) # <<>> THEN <<"token ">> \o token
    ELSE IF env # <<>> THEN <<"token ">> \o env
    ELSE NoHeader

\* The requests of one invocation, in the order issued, with the saves of
\* the configuration between them.  body is what a create or a PATCH sent.
Body(storage, timestamp, files) ==
    [storage |-> storage, timestamp |-> timestamp, files |-> files]
NoBody == Body(NoStorage, NoTimestamp, NoFiles)
\* status is "ok", "notFound" (404) or "error" (any other failure).
Event(op, id, status, body) == [op |-> op, id |-> id, status |-> status, body |-> body]

\* the status of a request on a gist that exists
Status(ok) == IF ok THEN "ok" ELSE "error"

\* the status of GET /gists/:id
GetStatus(ok, gists, id) ==
    IF ~ok THEN "error"
    ELSE IF \A i \in 1..Len(gists) : gists[i].id # id THEN "notFound"
    ELSE "ok"

IsRequest(e) == e.op \in {"list", "get", "create", "patch", "delete"}

NumRequests(log) == Cardinality({i \in 1..Len(log) : IsRequest(log[i])})

\* the next request of the invocation is the one that fails
Fails(log, failAt) == failAt = NumRequests(log) + 1

Ids(gists) == {gists[i].id : i \in 1..Len(gists)}

GistOf(gists, id) == gists[CHOOSE i \in 1..Len(gists) : gists[i].id = id]

\* POST /gists: the new gist heads the list
ServerCreate(gists, id, body) ==
    <<Gist(id, body.storage, body.timestamp, body.files)>> \o gists

\* PATCH /gists/:id, by the RemoteStore contract: the file set is replaced
ServerPatch(gists, id, body) ==
    [i \in 1..Len(gists) |->
        IF gists[i].id = id
        THEN Gist(id, body.storage, body.timestamp, body.files)
        ELSE gists[i]]

\* DELETE /gists/:id
ServerDelete(gists, id) == SelectSeq(gists, LAMBDA g : g.id # id)

\* ------------------------------------------------------- file processing

Restrict(f, S) == [x \in S |-> f[x]]

\* an assignment that drops the entries of a
OverlayReplaces(a, b) == b

\* Object spread / assignment: the entries of b over those of a
Overlay(a, b) ==
    [x \in DOMAIN a \cup DOMAIN b |-> IF x \in DOMAIN b THEN b[x] ELSE a[x]]

\* a path of the local file system is a directory: a file lies under it
IsDirectory(fs, name) == \E p \in DOMAIN fs : StartsWith(p, name \o <<"/">>)

ProcessedFile(content, type, valid) ==
    [content |-> content, type |-> type, valid |-> valid]

\* FileProcessor.getFileType: the extension after the last dot
getFileType(fileName) ==
    LET extension == fileName[Len(fileName)]
    IN IF extension = ".json" THEN "json"
       ELSE IF extension \in {".txt", ".md", ".log", ".conf", ".config"} THEN "text"
       ELSE "binary"

\* FileProcessor.processJsonFile
processJsonFile(content) ==
    IF content = <<>> \/ Trim(content) = <<>>
    THEN ProcessedFile(<<>>, "json", FALSE)
    ELSE ProcessedFile(IF EndsWithNewline(content) THEN content ELSE content \o <<"\n">>,
                       "json", TRUE)

\* a processing of text files that does not trim before it appends the
\* newline
processTextFileAppends(content) ==
    IF content = <<>> \/ Trim(content) = <<>>
    THEN ProcessedFile(<<>>, "text", FALSE)
    ELSE ProcessedFile(NormalizeLineEndings(content) \o <<"\n">>, "text", TRUE)

\* FileProcessor.processTextFile
processTextFile(content) ==
    IF content = <<>> \/ Trim(content) = <<>>
    THEN ProcessedFile(<<>>, "text", FALSE)
    ELSE LET cleanedContent == Trim(NormalizeLineEndings(content))
         IN ProcessedFile(IF EndsWithNewline(cleanedContent) THEN cleanedContent
                          ELSE cleanedContent \o <<"\n">>,
                          "text", TRUE)

\* FileProcessor.processSingleFile
processSingleFile(fileName, content) ==
    IF getFileType(fileName) = "json" THEN processJsonFile(content)
    ELSE IF getFileType(fileName) = "text" THEN processTextFile(content)
    ELSE ProcessedFile(<<>>, "binary", FALSE)

\* FileProcessor.processFiles: the selected names that exist as files, can
\* be copied to the flat temporary directory and are valid
processFiles(files, fs) ==
    LET kept == {f \in files :
                    /\ f \in DOMAIN fs
                    /\ ~IsDirectory(fs, f)
                    /\ ~Includes(f, "/")
                    /\ processSingleFile(f, fs[f]).valid}
    IN [f \in kept |-> processSingleFile(f, fs[f])]

\* FileProcessor.convertToGistFormat
convertToGistFormat(processedFiles) ==
    LET kept == {f \in DOMAIN processedFiles : processedFiles[f].valid}
    IN [f \in kept |-> processedFiles[f].content]

\* ------------------------------------------------------------------- push

\* What an invocation leaves: the gists of the account, the requests it
\* issued, the gist id of the saved configuration, the message shown and
\* the temporary directories it left under os.tmpdir().
Result(gists, log, gistId, outcome) ==
    [gists |-> gists, log |-> log, gistId |-> gistId, outcome |-> outcome, temp |-> {}]

\* A temporary directory of fs.mkdtempSync is named by its prefix.

\* FileProcessor.cleanupTempDir and the finally block of
\* replaceGistWithMerge: every entry is unlinked and the directory removed;
\* on an entry that is a directory unlinkSync throws, the error is caught
\* and the directory stays
cleanupFlat(dirs, dir, entries) ==
    IF \E e \in entries : Includes(e, "/") THEN dirs ELSE dirs \ {dir}

\* a removal that is skipped
cleanupTempDirSkipped(dirs, dir) == dirs

\* PullManager.cleanupTempDir: the entries are removed, directories
\* recursively, then the directory
cleanupTempDir(dirs, dir) == dirs \ {dir}

\* the temporary directories processFiles leaves: the one it made, after
\* the cleanup of its finally block; its entries are the selected files
\* copied, whether valid or not
processFilesTemp(files, fs) ==
    cleanupFlat({"cursor-sync-"}, "cursor-sync-",
                {f \in files : f \in DOMAIN fs /\ ~IsDirectory(fs, f) /\ ~Includes(f, "/")})

\* the temporary directories left by a call are added to those of the
\* invocation
WithTemp(result, dirs) == [result EXCEPT !.temp = @ \cup dirs]

\* the extraction of replaceGistWithMerge does not throw:
\* fs.writeFileSync(path.join(tempDir, fileName)) finds no directory for a
\* name with a slash
CanExtract(existingFiles) ==
    \A n \in DOMAIN existingFiles : ~IsSpecial(n) => ~Includes(n, "/")

\* The files object of a request: the two generated files, then the spread
\* of fileContents after them.  A spread entry under a special name takes
\* the place of the generated one; no local file of the model under a
\* special name parses as JSON.
GistData(storage, timestamp, fileContents) ==
    Body(IF STORAGE \in DOMAIN fileContents THEN BadStorage ELSE storage,
         IF TIMESTAMP \in DOMAIN fileContents THEN BadTimestamp ELSE timestamp,
         Restrict(fileContents, {n \in DOMAIN fileContents : ~IsSpecial(n)}))

\* a cleanup that deletes nothing
IsOldGistNever(g, excludeGistId, extensionName) == FALSE

\* a cleanup that deletes every other gist whose storage file parses
IsOldGistAnyExtension(g, excludeGistId, extensionName) ==
    /\ g.id # excludeGistId
    /\ g.storage.kind # "absent"
    /\ StorageParses(g)

\* the gist the cleanup deletes: not the excluded one, with a storage file
\* that parses to this extension name
IsOldGist(g, excludeGistId, extensionName) ==
    /\ g.id # excludeGistId
    /\ g.storage.kind # "absent"
    /\ StorageParses(g)
    /\ g.storage.extensionName = extensionName

\* a loop that ends at the first delete request that fails
RECURSIVE cleanupLoopAborts(_, _, _, _, _, _, _)
cleanupLoopAborts(listed, i, excludeGistId, extensionName, gists, log, failAt) ==
    IF i > Len(listed) THEN [gists |-> gists, log |-> log]
    ELSE IF ~IsOldGist(listed[i], excludeGistId, extensionName)
    THEN cleanupLoopAborts(listed, i + 1, excludeGistId, extensionName, gists, log, failAt)
    ELSE IF Fails(log, failAt)
    THEN [gists |-> gists,
          log |-> Append(log, Event("delete", listed[i].id, "error", NoBody))]
    ELSE cleanupLoopAborts(listed, i + 1, excludeGistId, extensionName,
                           ServerDelete(gists, listed[i].id),
                           Append(log, Event("delete", listed[i].id, "ok", NoBody)),
                           failAt)

\* the loop of cleanupOldGists over the listed gists, from the i-th on; a
\* delete request that fails is caught and the loop goes on
RECURSIVE cleanupLoop(_, _, _, _, _, _, _)
cleanupLoop(listed, i, excludeGistId, extensionName, gists, log, failAt) ==
    IF i > Len(listed) THEN [gists |-> gists, log |-> log]
    ELSE IF ~IsOldGist(listed[i], excludeGistId, extensionName)
    THEN cleanupLoop(listed, i + 1, excludeGistId, extensionName, gists, log, failAt)
    ELSE LET ok == ~Fails(log, failAt)
         IN cleanupLoop(listed, i + 1, excludeGistId, extensionName,
                        IF ok THEN ServerDelete(gists, listed[i].id) ELSE gists,
                        Append(log, Event("delete", listed[i].id, Status(ok), NoBody)),
                        failAt)

\* GitHubService.cleanupOldGists
cleanupOldGists(excludeGistId, extensionName, gists, log, failAt) ==
    LET listOk == ~Fails(log, failAt)
        log1 == Append(log, Event("list", NoId, Status(listOk), NoBody))
    IN IF ~listOk THEN [gists |-> gists, log |-> log1]
       ELSE cleanupLoop(gists, 1, excludeGistId, extensionName, gists, log1, failAt)

\* a copy of the configuration that keeps the token
gistConfigKeepsToken(extensionName, username) ==
    [StorageFile("config", extensionName, username)
        EXCEPT !.personalAccessToken = Defined(personalAccessToken)]

\* gistConfig of createGist and updateGist: the deep copy of this.config,
\* with the token set to undefined and includedDirectories deleted
gistConfig(extensionName, username) ==
    LET config == [StorageFile("config", extensionName, username)
                      EXCEPT !.personalAccessToken = Defined(personalAccessToken),
                             !.includedDirectories = Defined(includedDirectories)]
    IN [config EXCEPT !.personalAccessToken = Undefined,
                      !.includedDirectories = Undefined]

\* GitHubService.createGist: the request body
createGist(files, fileContents, extensionName, username) ==
    GistData(gistConfig(extensionName, username),
             DataTimestamp(extensionName, files),
             fileContents)

\* maxFileSize of validateAndCleanFiles
maxFileSize == 10 * 1024 * 1024

\* In a content, Huge stands for a run of maxFileSize characters.
Huge == "H"

\* Buffer.byteLength(content, 'utf8')
RECURSIVE ByteLength(_)
ByteLength(content) ==
    IF content = <<>> THEN 0
    ELSE (IF Head(content) = Huge THEN maxFileSize ELSE 1) + ByteLength(Tail(content))

\* validateAndCleanFiles throws: a file is larger than maxFileSize
TooLarge(fileContents) ==
    \E n \in DOMAIN fileContents : ByteLength(fileContents[n]) > maxFileSize

\* validateAndCleanFiles and the skip of updateGist: entries with empty
\* content are left out
NonEmptyFiles(fileContents) ==
    Restrict(fileContents, {n \in DOMAIN fileContents : fileContents[n] # <<>>})

\* GitHubService.updateGist: the request body, from the gist as fetched
updateGist(existingGist, files, fileContents, extensionName, username) ==
    LET mergedFiles == NonEmptyFiles(Overlay(existingGist.files, NonEmptyFiles(fileContents)))
        allFiles == {f \in DOMAIN existingGist.files \cup files : ~IsSpecial(f)}
    IN GistData(gistConfig(extensionName, username),
                DataTimestamp(extensionName, allFiles),
                mergedFiles)

\* a merge in which the files of the gist win over the local ones
MergeFilesRemoteWins(existingFiles, newFileContents) ==
    Overlay(newFileContents, existingFiles)

\* replaceGistWithMerge, step 2: existing files, then the new ones over them
MergeFiles(existingFiles, newFileContents) == Overlay(existingFiles, newFileContents)

\* the check of timestamp.json in replaceGistWithMerge passes
VerifyTimestamp(g, extensionName) ==
    /\ g.timestamp.kind = "data"
    /\ g.timestamp.extensionName = extensionName

\* SyncService.replaceGistWithMerge on the gist id of the configuration in
\* memory; savedId is the id of the saved configuration.  Every error is
\* caught and shown, none is thrown to the caller.
replaceGistWithMerge(gists, log, savedId, gistId, files, fs, extensionName, username, failAt) ==
    LET get1Ok == ~Fails(log, failAt)
        log1 == Append(log, Event("get", gistId, GetStatus(get1Ok, gists, gistId), NoBody))
    IN IF ~get1Ok THEN Result(gists, log1, savedId, "failed")
       ELSE IF gistId \notin Ids(gists)
       THEN Result(gists, Append(log1, Event("save", NoId, "ok", NoBody)), NoId, "failed")
       ELSE
       LET existingGist == GistOf(gists, gistId)
           newFileContents == convertToGistFormat(processFiles(files, fs))
           mergedFiles == MergeFiles(existingGist.files, newFileContents)
           get2Ok == ~Fails(log1, failAt)
           log2 == Append(log1, Event("get", gistId, Status(get2Ok), NoBody))
           body == updateGist(existingGist, files, mergedFiles, extensionName, username)
           patchOk == ~Fails(log2, failAt)
           log3 == Append(log2, Event("patch", gistId, Status(patchOk), body))
           log4 == Append(log3, Event("save", gistId, "ok", NoBody))
           cleaned == cleanupOldGists(gistId, extensionName,
                                      ServerPatch(gists, gistId, body), log4, failAt)
           merged == IF ~CanExtract(existingGist.files)
                     THEN Result(gists, log1, savedId, "failed")
                     ELSE WithTemp(
                          IF ~get2Ok THEN Result(gists, log2, savedId, "failed")
                          ELSE IF TooLarge(Overlay(existingGist.files, NonEmptyFiles(mergedFiles)))
                          THEN Result(gists, log2, savedId, "failed")
                          ELSE IF ~patchOk THEN Result(gists, log3, savedId, "failed")
                          ELSE Result(cleaned.gists, cleaned.log, gistId, "updated"),
                          processFilesTemp(files, fs))
       IN IF ~VerifyTimestamp(existingGist, extensionName)
          THEN Result(gists, log1, savedId, "failed")
          ELSE [merged EXCEPT !.temp =
                   cleanupFlat(@ \cup {"cursor-sync-merge-"}, "cursor-sync-merge-",
                               {n \in DOMAIN existingGist.files :
                                   ~IsSpecial(n) /\ ~Includes(n, "/")})]

\* a create branch that runs the cleanup whether the create succeeded or not
CreateNewCleansAnyway(gists, log, savedId, newId, files, fileContents, extensionName, username, failAt) ==
    LET body == createGist(files, fileContents, extensionName, username)
        createOk == ~Fails(log, failAt)
        log1 == Append(log, Event("create", newId, Status(createOk), body))
        cleaned == cleanupOldGists(newId, extensionName,
                                   IF createOk THEN ServerCreate(gists, newId, body) ELSE gists,
                                   log1, failAt)
    IN Result(cleaned.gists, Append(cleaned.log, Event("save", newId, "ok", NoBody)),
              IF createOk THEN newId ELSE savedId,
              IF createOk THEN "created" ELSE "failed")

\* a create branch that sends the create request again when it failed
CreateNewRetries(gists, log, savedId, newId, files, fileContents, extensionName, username, failAt) ==
    LET body == createGist(files, fileContents, extensionName, username)
        log0 == IF Fails(log, failAt)
                THEN Append(log, Event("create", newId, "error", body))
                ELSE log
        log1 == Append(log0, Event("create", newId, "ok", body))
        cleaned == cleanupOldGists(newId, extensionName,
                                   ServerCreate(gists, newId, body), log1, failAt)
    IN Result(cleaned.gists, Append(cleaned.log, Event("save", newId, "ok", NoBody)),
              newId, "created")

\* the create branch of pushConfiguration: create, cleanup, then save
CreateNew(gists, log, savedId, newId, files, fileContents, extensionName, username, failAt) ==
    LET body == createGist(files, fileContents, extensionName, username)
        createOk == ~Fails(log, failAt)
        log1 == Append(log, Event("create", newId, Status(createOk), body))
        cleaned == cleanupOldGists(newId, extensionName,
                                   ServerCreate(gists, newId, body), log1, failAt)
    IN IF ~createOk THEN Result(gists, log1, savedId, "failed")
       ELSE Result(cleaned.gists, Append(cleaned.log, Event("save", newId, "ok", NoBody)),
                   newId, "created")

\* a push that creates a new gist when the replacement fails
pushConfigurationRecreates(gists, savedId, newId, files, fs, extensionName, username, failAt) ==
    LET fileContents == convertToGistFormat(processFiles(files, fs))
        listOk == ~Fails(<<>>, failAt)
        log1 == IF savedId = NoId THEN <<Event("list", NoId, Status(listOk), NoBody)>> ELSE <<>>
        gistId == IF savedId = NoId
                  THEN findExistingGist(listOk, gists, extensionName, username)
                  ELSE savedId
        replaced == replaceGistWithMerge(gists, log1, savedId, gistId, files, fs,
                                         extensionName, username, failAt)
    IN IF gistId # NoId /\ replaced.outcome # "failed"
       THEN replaced
       ELSE IF gistId # NoId
       THEN CreateNew(replaced.gists, replaced.log, savedId, newId, files, fileContents,
                      extensionName, username, failAt)
       ELSE CreateNew(gists, log1, savedId, newId, files, fileContents,
                      extensionName, username, failAt)

\* SyncService.pushConfiguration
pushConfiguration(gists, savedId, newId, files, fs, extensionName, username, failAt) ==
    LET fileContents == convertToGistFormat(processFiles(files, fs))
        listOk == ~Fails(<<>>, failAt)
        log1 == IF savedId = NoId THEN <<Event("list", NoId, Status(listOk), NoBody)>> ELSE <<>>
        gistId == IF savedId = NoId
                  THEN findExistingGist(listOk, gists, extensionName, username)
                  ELSE savedId
    IN IF personalAccessToken = <<>> \/ Trim(personalAccessToken) = <<>>
       THEN Result(gists, <<>>, savedId, "failed")
       ELSE WithTemp(IF gistId # NoId
                     THEN replaceGistWithMerge(gists, log1, savedId, gistId, files, fs,
                                               extensionName, username, failAt)
                     ELSE CreateNew(gists, log1, savedId, newId, files, fileContents,
                                    extensionName, username, failAt),
                     processFilesTemp(files, fs))

\* ------------------------------------------------------------------- pull

\* a filter that ignores the selection
InScopeAny(fileName, selection) ==
    ~(StartsWith(fileName, <<"cursor-git-sync-">>) \/ fileName = TIMESTAMP)

\* the filter of PullManager.pullConfiguration (step 5)
InScope(fileName, selection) ==
    /\ ~(StartsWith(fileName, <<"cursor-git-sync-">>) \/ fileName = TIMESTAMP)
    /\ \E selectedFile \in selection :
          \/ fileName = selectedFile
          \/ StartsWith(fileName, selectedFile \o <<"/">>)
          \/ fileName = selectedFile \o <<".json">>

\* preconditions that do not ask for a selection
PullPreconditionsAnySelection(gistId, selection) == gistId # NoId

\* the preconditions of PullManager.pullConfiguration: a gist id and a
\* selection that is not empty
PullPreconditions(gistId, selection) == gistId # NoId /\ selection # {}

\* an extraction that keeps every file of the gist
FilesToRestoreAll(g, selection) == {n \in DOMAIN g.files : n # SyncManifest}

\* the files extracted from the fetched gist (step 4), filtered (step 5)
FilesToRestore(g, selection) ==
    {n \in DOMAIN g.files : n # SyncManifest /\ InScope(n, selection)}

\* a verification that does not compare the extension name
PullVerifiesAnyName(g, extensionName) ==
    /\ g.timestamp.kind # "absent"
    /\ g.timestamp.kind # "bad"

\* the verification of timestamp.json in PullManager.pullConfiguration
\* passes: an empty file skips it
PullVerifies(g, extensionName) ==
    /\ g.timestamp.kind # "absent"
    /\ \/ g.timestamp.kind = "empty"
       \/ g.timestamp.kind = "data" /\ g.timestamp.extensionName = extensionName

\* the directories above a path
Parents(name) ==
    {SubSeq(name, 1, i - 1) : i \in {j \in 1..Len(name) : name[j] = "/"}}

\* a file can be written at the path: it is no directory and no file lies
\* where one of its directories has to be
CanWrite(fs, name) ==
    /\ ~IsDirectory(fs, name)
    /\ \A d \in Parents(name) : d \notin DOMAIN fs

\* fs.copyFileSync / fs.writeFileSync
WriteFile(fs, name, content) ==
    [x \in DOMAIN fs \cup {name} |-> IF x = name THEN content ELSE fs[x]]

\* fs.unlinkSync, caught when it throws
RemoveFiles(fs, names) == Restrict(fs, DOMAIN fs \ names)

\* a preparation that leaves the stale backup copies where they are
RemoveConflictsNone(backupFs, targetFiles) == backupFs

\* manageBackupDirectory, first half: the backup copies of the target
\* files are removed from an existing backup directory
RemoveConflicts(backupFs, targetFiles) == RemoveFiles(backupFs, targetFiles)

\* a backup step that copies nothing
BackupFileSkipped(backupFs, fs, file) == backupFs

\* manageBackupDirectory, second half, for one file: the current file is
\* copied to the backup directory
BackupFile(backupFs, fs, file) ==
    IF file \in DOMAIN fs THEN WriteFile(backupFs, file, fs[file]) ELSE backupFs

\* copyFilesToSettings, for one file
CopyToSettings(fs, file, content) == WriteFile(fs, file, content)

\* PullManager.isManifestFile: the content parses to an object with
\* directoryName 'images', a member images and a member version.  In a
\* content that is an object the tokens between the braces are the keys and
\* the values in turn.
isManifestFile(content) ==
    LET text == Trim(content)
        keys == {i \in 2..(Len(text) - 2) : i % 2 = 0}
    IN /\ Len(text) >= 2
       /\ text[1] = "{"
       /\ text[Len(text)] = "}"
       /\ \E i \in keys : text[i] = "directoryName" /\ text[i + 1] = "images"
       /\ \E i \in keys : text[i] = "images"
       /\ \E i \in keys : text[i] = "version"

\* a copy in the order of the files to restore
CopyOrderAsListed(files, contents) == files

\* copyFilesToSettings: the files are grouped, the manifest files are copied
\* first, then the regular files, each group in the order of the files to
\* restore
CopyOrder(files, contents) ==
    SelectSeq(files, LAMBDA f : isManifestFile(contents[f]))
        \o SelectSeq(files, LAMBDA f : ~isManifestFile(contents[f]))

\* FileManager.writeFiles: every file that has content is written; a write
\* that throws is caught
writeFiles(files, fs, fileContents) ==
    LET written == {f \in files :
                       /\ f \in DOMAIN fileContents
                       /\ fileContents[f] # <<>>
                       /\ CanWrite(fs, f)
                       /\ \A d \in Parents(f) : IsDirectory(fs, d)}
    IN [x \in DOMAIN fs \cup written |->
           IF x \in written THEN fileContents[x] ELSE fs[x]]

\* the verification of SyncService.pullConfiguration passes
SyncPullVerifies(g, extensionName) ==
    /\ g.timestamp.kind = "data"
    /\ g.timestamp.extensionName = extensionName

\* every ordering of a finite set of names
Orderings(S) ==
    {q \in [1..Cardinality(S) -> S] : \A i, j \in 1..Cardinality(S) : q[i] = q[j] => i = j}

\* ------------------------------------------------------------------ state

VARIABLES
    gists,                \* the gists of the account, in the order listed
    nextId,               \* the id the next created gist gets
    username,             \* config.github.username
    savedGistId,          \* config.github.gistId of the saved configuration
    localFs,              \* the files under the settings path
    backupDir,            \* backup-cursor-git-sync exists
    backupFs,             \* the files under backup-cursor-git-sync
    pull,                 \* the position of the running PullManager pull
    last,                 \* the last invocation: its requests and outcome
    ops,                  \* the pushes and pulls so far
    edits,                \* the edits and configuration changes so far
    tempDirs,             \* the temporary directories under os.tmpdir()
    envToken,             \* process.env.GITHUB_TOKEN
    authorization,        \* the Authorization header of the last requests
    pushes                \* the pushes in flight, each with its position

vars == <<gists, nextId, username, savedGistId, includedDirectories, localFs,
          backupDir, backupFs, pull, last, ops, edits,
          personalAccessToken, tempDirs, envToken, authorization, pushes>>

\* ----------------------------------------------------------------- inputs

\* the requests of one invocation that may fail: the first to the MaxFailAt-th
MaxFailAt == 7

\* the ids of the gists the account starts with
InitialIds == 3

\* files is the selection the invocation was sent with, found what
\* findExistingGist returned in it
Last(op, outcome, log, found, files) ==
    [op |-> op, outcome |-> outcome, log |-> log, found |-> found, files |-> files]
NoLast == Last("none", "none", <<>>, NoId, {})

\* queue: the target files of the running step that are still to do;
\* contents: the files fetched; before: the local files when the pull began
Pull(pc, queue, targets, contents, before) ==
    [pc |-> pc, queue |-> queue, targets |-> targets, contents |-> contents,
     before |-> before]
Idle == Pull("idle", <<>>, <<>>, NoFiles, NoFiles)

\* contents of local files: without and with a final newline, and blank
RawA == <<"a">>
RawB == <<"b", "\n">>
Blank == <<" ">>
\* content of the files the account starts with
RemoteText == <<"r", "\n">>

Files1(a, x) == [n \in {a} |-> x]
Files2(a, b, x) == [n \in {a, b} |-> x]

OwnedGist(id, files) ==
    Gist(id, ConfigStorage(ExtensionName, Me),
         DataTimestamp(ExtensionName, DOMAIN files), files)
ForeignGist(id, files) ==
    Gist(id, ConfigStorage(OtherCursorName, Me),
         DataTimestamp(OtherCursorName, DOMAIN files), files)
UnrelatedGist(id, files) == Gist(id, NoStorage, NoTimestamp, files)
BadGist(id, files) == Gist(id, BadStorage, NoTimestamp, files)

NestedFiles ==
    [n \in {SettingsJson, KeybindingsJson, SnippetsA, SnippetsJson, SyncManifest}
        |-> RemoteText]

\* the accounts a behaviour starts from
InitRemotes ==
    { <<>>,
      <<OwnedGist(1, Files2(SettingsJson, KeybindingsJson, RemoteText)),
        UnrelatedGist(2, Files1(NotesTxt, RemoteText))>>,
      <<OwnedGist(1, Files1(SettingsJson, RemoteText)),
        OwnedGist(2, Files1(KeybindingsJson, RemoteText)),
        OwnedGist(3, Files1(NotesTxt, RemoteText))>>,
      <<BadGist(2, Files1(NotesTxt, RemoteText)),
        ForeignGist(3, Files1(SettingsJson, RemoteText)),
        OwnedGist(1, Files2(SettingsJson, KeybindingsJson, RemoteText))>>,
      <<BadGist(2, Files1(NotesTxt, RemoteText)),
        ForeignGist(3, Files1(SettingsJson, RemoteText))>>,
      <<OwnedGist(1, NestedFiles)>> }

\* the selections of the dashboard
Selections ==
    { {}, {SettingsJson}, {SettingsJson, KeybindingsJson}, {NotesTxt, Snippets} }

\* the selections a push is sent with
PushSelections ==
    { {SettingsJson}, {SettingsJson, KeybindingsJson}, {NotesTxt, Snippets} }

\* the settings directory of a device in use
UsedLocal ==
    [n \in {SettingsJson, KeybindingsJson, NotesTxt} |->
        IF n = SettingsJson THEN RawA ELSE RawB]

InitLocals == { NoFiles, UsedLocal }

EditNames == {SettingsJson, KeybindingsJson}
EditContents == {RawA, Blank}

\* the accounts a behaviour of pulls starts from; the last has no gist
\* under the saved id
PullRemotes ==
    { <<OwnedGist(1, Files2(SettingsJson, KeybindingsJson, RemoteText)),
        UnrelatedGist(2, Files1(NotesTxt, RemoteText))>>,
      <<ForeignGist(1, Files1(SettingsJson, RemoteText))>>,
      <<OwnedGist(1, NestedFiles)>>,
      <<Gist(1, ConfigStorage(ExtensionName, Me), NoTimestamp,
             Files1(SettingsJson, RemoteText))>>,
      <<Gist(1, ConfigStorage(ExtensionName, Me), EmptyTimestamp,
             Files1(SettingsJson, RemoteText))>>,
      <<UnrelatedGist(2, Files1(NotesTxt, RemoteText))>> }

InitCommon ==
    /\ nextId = InitialIds + 1
    /\ personalAccessToken = Token1
    /\ envToken = <<>>
    /\ username = Me
    /\ savedGistId \in {NoId, 1}
    /\ backupDir = FALSE
    /\ backupFs = NoFiles
    /\ pull = Idle
    /\ last = NoLast
    /\ ops = 0
    /\ edits = 0
    /\ tempDirs = {}
    /\ authorization = NoHeader
    /\ pushes = <<>>

\* the selections of the pushes of the payload specification: with a
\* reserved name, with a name that is missing or a directory locally
PayloadSelections ==
    { {SettingsJson}, {SettingsJson, STORAGE}, {SettingsJson, TIMESTAMP},
      {SettingsJson, NotesTxt}, {NotesTxt, Snippets} }

\* a content larger than maxFileSize
HugeText == <<Huge, "\n">>

\* settings directories: with files under the reserved names, with a file
\* larger than maxFileSize, with a directory snippets
PayloadLocals ==
    { Overlay(UsedLocal, Files2(STORAGE, TIMESTAMP, RawB)),
      Overlay(UsedLocal, Files1(NotesTxt, HugeText)),
      Overlay(UsedLocal, Files1(SnippetsA, RawB)) }

\* accounts: none, with the owned gist
PayloadRemotes ==
    { <<>>,
      <<OwnedGist(1, Files2(SettingsJson, KeybindingsJson, RemoteText))>> }

Tokens == {Token1, Token2}

InitPayload ==
    /\ gists \in PayloadRemotes
    /\ localFs \in PayloadLocals
    /\ includedDirectories \in {{SettingsJson}, {SettingsJson, NotesTxt}}
    /\ personalAccessToken \in Tokens
    /\ envToken = <<>>
    /\ savedGistId \in {NoId, 1}
    /\ nextId = InitialIds + 1
    /\ username = Me
    /\ backupDir = FALSE
    /\ backupFs = NoFiles
    /\ pull = Idle
    /\ last = NoLast
    /\ ops = 0
    /\ edits = 0
    /\ tempDirs = {}
    /\ authorization = NoHeader
    /\ pushes = <<>>

\* pushes: the selection comes with the message of the dashboard
Init ==
    /\ InitCommon
    /\ gists \in InitRemotes
    /\ localFs = UsedLocal
    /\ includedDirectories = {SettingsJson}

\* pulls: the selection is the saved one
InitPull ==
    /\ InitCommon
    /\ gists \in PullRemotes
    /\ localFs \in InitLocals
    /\ includedDirectories \in Selections

\* ---------------------------------------------------------------- actions

HasCreate(log) == \E i \in 1..Len(log) : log[i].op = "create"

\* the result of findExistingGist in a push, null when it was not called
Discovered(savedId, listed, failAt) ==
    IF savedId = NoId
    THEN findExistingGist(~Fails(<<>>, failAt), listed, ExtensionName, username)
    ELSE NoId

\* the dashboard sends pushConfig: extension.ts pushConfiguration loads the
\* configuration and runs SyncService.pushConfiguration
PushFiles(files, failAt) ==
    /\ pull.pc = "idle"
    /\ ops < MaxOps
    /\ ops' = ops + 1
    /\ \E r \in {pushConfiguration(gists, savedGistId, nextId, files, localFs,
                                   ExtensionName, username, failAt)} :
          /\ HasCreate(r.log) => nextId <= InitialIds + MaxCreated
          /\ gists' = r.gists
          /\ savedGistId' = r.gistId
          /\ nextId' = IF HasCreate(r.log) THEN nextId + 1 ELSE nextId
          /\ last' = Last("push", r.outcome, r.log,
                          Discovered(savedGistId, gists, failAt), files)
          /\ tempDirs' = tempDirs \cup r.temp
          /\ authorization' = IF NumRequests(r.log) > 0
                               THEN getAuthHeader(personalAccessToken, envToken)
                               ELSE NoHeader
    /\ UNCHANGED <<pushes, envToken, personalAccessToken, username, includedDirectories, localFs, backupDir, backupFs,
                   pull, edits>>

\* a push with one of the selections of the dashboard, in which a request
\* may fail
Push == \E files \in PushSelections, failAt \in 0..MaxFailAt : PushFiles(files, failAt)

\* a push of a selection that names files the dashboard does not offer
PushPayload == \E files \in PayloadSelections : PushFiles(files, 0)

\* the dashboard sends saveConfig with another token
SaveToken ==
    /\ pull.pc = "idle"
    /\ edits < MaxEdits
    /\ \E token \in Tokens :
          /\ token # personalAccessToken
          /\ personalAccessToken' = token
    /\ edits' = edits + 1
    /\ last' = Last("edit", "none", <<>>, NoId, {})
    /\ UNCHANGED <<pushes, envToken, authorization, tempDirs, ops, gists, nextId, username, savedGistId, includedDirectories,
                   localFs, backupDir, backupFs, pull>>

\* the user edits a file under the settings path
EditLocal ==
    /\ pull.pc = "idle"
    /\ edits < MaxEdits
    /\ \E n \in EditNames, c \in EditContents :
          localFs' = WriteFile(localFs, n, c)
    /\ edits' = edits + 1
    /\ last' = Last("edit", "none", <<>>, NoId, {})
    /\ UNCHANGED <<pushes, envToken, authorization, tempDirs, personalAccessToken, ops, gists, nextId, username, savedGistId, includedDirectories,
                   backupDir, backupFs, pull>>

\* the user removes a file under the settings path
DeleteLocal ==
    /\ pull.pc = "idle"
    /\ edits < MaxEdits
    /\ \E n \in EditNames :
          /\ n \in DOMAIN localFs
          /\ localFs' = RemoveFiles(localFs, {n})
    /\ edits' = edits + 1
    /\ last' = Last("edit", "none", <<>>, NoId, {})
    /\ UNCHANGED <<pushes, envToken, authorization, tempDirs, personalAccessToken, ops, gists, nextId, username, savedGistId, includedDirectories,
                   backupDir, backupFs, pull>>

\* the dashboard sends saveSelections: ConfigManager.saveSelectedFiles
SaveSelections ==
    /\ pull.pc = "idle"
    /\ edits < MaxEdits
    /\ \E files \in Selections :
          /\ files # includedDirectories
          /\ includedDirectories' = files
    /\ edits' = edits + 1
    /\ last' = Last("edit", "none", <<>>, NoId, {})
    /\ UNCHANGED <<pushes, envToken, authorization, tempDirs, personalAccessToken, ops, gists, nextId, username, savedGistId, localFs, backupDir,
                   backupFs, pull>>

\* the dashboard sends saveConfig with a configuration that has no gist id
\* (a fresh configuration, as on another device)
SaveConfig ==
    /\ pull.pc = "idle"
    /\ edits < MaxEdits
    /\ savedGistId # NoId
    /\ savedGistId' = NoId
    /\ edits' = edits + 1
    /\ last' = Last("edit", "none", <<>>, NoId, {})
    /\ UNCHANGED <<pushes, envToken, authorization, tempDirs, personalAccessToken, ops, gists, nextId, username, includedDirectories, localFs,
                   backupDir, backupFs, pull>>

\* PullManager.pullConfiguration up to the filter (steps 1 to 5): the
\* preconditions, the fetch, the verification and the files to restore
PullStart ==
    /\ pull.pc = "idle"
    /\ ops < MaxOps
    /\ ops' = ops + 1
    /\ \E failAt \in 0..1 :
          LET getOk == ~Fails(<<>>, failAt) /\ savedGistId \in Ids(gists)
              log == <<Event("get", savedGistId,
                             GetStatus(~Fails(<<>>, failAt), gists, savedGistId), NoBody)>>
              g == GistOf(gists, savedGistId)
              header == getAuthHeader(personalAccessToken, envToken)
          IN IF ~PullPreconditions(savedGistId, includedDirectories) \/ header = NoHeader
             THEN /\ last' = Last("pull", "failed", <<>>, NoId, includedDirectories)
                  /\ pull' = pull
                  /\ tempDirs' = tempDirs
                  /\ authorization' = NoHeader
             ELSE IF ~getOk \/ ~PullVerifies(g, ExtensionName)
             THEN /\ last' = Last("pull", "failed", log, NoId, includedDirectories)
                  /\ pull' = pull
                  /\ tempDirs' = tempDirs
                  /\ authorization' = header
             ELSE IF FilesToRestore(g, includedDirectories) = {}
             THEN /\ last' = Last("pull", "failed", log, NoId, includedDirectories)
                  /\ pull' = pull
                  /\ tempDirs' = cleanupTempDir(tempDirs \cup {"cursor-sync-pull-"},
                                                "cursor-sync-pull-")
                  /\ authorization' = header
             ELSE /\ last' = Last("pull", "running", log, NoId, includedDirectories)
                  /\ tempDirs' = tempDirs \cup {"cursor-sync-pull-"}
                  /\ authorization' = header
                  /\ \E targets \in Orderings(FilesToRestore(g, includedDirectories)) :
                        pull' = Pull("prepare", targets, targets,
                                     Restrict(g.files, FilesToRestore(g, includedDirectories)),
                                     localFs)
    /\ UNCHANGED <<pushes, envToken, personalAccessToken, gists, nextId, username, savedGistId, includedDirectories,
                   localFs, backupDir, backupFs, edits>>

\* manageBackupDirectory, first half: the directory is created, or the
\* backup copies of the target files are removed from it
PrepareBackup ==
    /\ pull.pc = "prepare"
    /\ backupDir' = TRUE
    /\ backupFs' = IF backupDir
                   THEN RemoveConflicts(backupFs, {pull.targets[i] : i \in 1..Len(pull.targets)})
                   ELSE backupFs
    /\ pull' = [pull EXCEPT !.pc = "backup"]
    /\ UNCHANGED <<pushes, envToken, authorization, tempDirs, personalAccessToken, ops, gists, nextId, username, savedGistId, includedDirectories,
                   localFs, last, edits>>

\* manageBackupDirectory, second half, one target file a step; the copy of
\* a directory, or to a path that cannot be written, throws and ends the pull
BackupStep ==
    /\ pull.pc = "backup"
    /\ LET file == Head(pull.queue)
           throws == \/ IsDirectory(localFs, file)
                     \/ file \in DOMAIN localFs /\ ~CanWrite(backupFs, file)
       IN IF throws
          THEN /\ pull' = Idle
               /\ last' = [last EXCEPT !.outcome = "failed"]
               /\ backupFs' = backupFs
               /\ tempDirs' = cleanupTempDir(tempDirs, "cursor-sync-pull-")
          ELSE /\ backupFs' = BackupFile(backupFs, localFs, file)
               /\ tempDirs' = tempDirs
               /\ pull' = IF Len(pull.queue) = 1
                          THEN [pull EXCEPT !.pc = "copy",
                                            !.queue = CopyOrder(pull.targets, pull.contents)]
                          ELSE [pull EXCEPT !.queue = Tail(pull.queue)]
               /\ last' = last
    /\ UNCHANGED <<pushes, envToken, authorization, personalAccessToken, ops, gists, nextId, username, savedGistId, includedDirectories,
                   localFs, backupDir, edits>>

\* copyFilesToSettings, one file a step; a copy that throws ends the pull
CopyStep ==
    /\ pull.pc = "copy"
    /\ LET file == Head(pull.queue)
       IN IF ~CanWrite(localFs, file)
          THEN /\ pull' = Idle
               /\ last' = [last EXCEPT !.outcome = "failed"]
               /\ localFs' = localFs
               /\ tempDirs' = cleanupTempDir(tempDirs, "cursor-sync-pull-")
          ELSE /\ localFs' = CopyToSettings(localFs, file, pull.contents[file])
               /\ pull' = IF Len(pull.queue) = 1 THEN Idle
                          ELSE [pull EXCEPT !.queue = Tail(pull.queue)]
               /\ last' = IF Len(pull.queue) = 1
                          THEN [last EXCEPT !.outcome = "pulled"]
                          ELSE last
               /\ tempDirs' = IF Len(pull.queue) = 1
                              THEN cleanupTempDir(tempDirs, "cursor-sync-pull-")
                              ELSE tempDirs
    /\ UNCHANGED <<pushes, envToken, authorization, personalAccessToken, ops, gists, nextId, username, savedGistId, includedDirectories,
                   backupDir, backupFs, edits>>

\* a pull that clears the saved gist id when the fetch is answered
\* not-found, as replaceGistWithMerge does
SyncPullClearsId ==
    /\ pull.pc = "idle"
    /\ ops < MaxOps
    /\ ops' = ops + 1
    /\ savedGistId # NoId
    /\ last' = Last("syncPull", "failed",
                    <<Event("get", savedGistId, GetStatus(TRUE, gists, savedGistId), NoBody)>>,
                    NoId, includedDirectories)
    /\ savedGistId' = IF savedGistId \in Ids(gists) THEN savedGistId ELSE NoId
    /\ authorization' = getAuthHeader(personalAccessToken, envToken)
    /\ UNCHANGED <<pushes, envToken, tempDirs, personalAccessToken, gists, nextId, username,
                   includedDirectories, localFs, backupDir, backupFs, pull, edits>>

\* the dashboard sends pullConfig: extension.ts pullConfiguration runs
\* SyncService.pullConfiguration, which writes with FileManager.writeFiles
SyncPull ==
    /\ pull.pc = "idle"
    /\ ops < MaxOps
    /\ ops' = ops + 1
    /\ \E files \in Selections, failAt \in 0..1 :
          LET getOk == ~Fails(<<>>, failAt) /\ savedGistId \in Ids(gists)
              log == <<Event("get", savedGistId,
                             GetStatus(~Fails(<<>>, failAt), gists, savedGistId), NoBody)>>
              g == GistOf(gists, savedGistId)
              header == getAuthHeader(personalAccessToken, envToken)
          IN IF savedGistId = NoId \/ header = NoHeader
             THEN /\ last' = Last("syncPull", "failed", <<>>, NoId, files)
                  /\ localFs' = localFs
                  /\ authorization' = NoHeader
             ELSE IF ~getOk \/ ~SyncPullVerifies(g, ExtensionName)
             THEN /\ last' = Last("syncPull", "failed", log, NoId, files)
                  /\ localFs' = localFs
                  /\ authorization' = header
             ELSE /\ last' = Last("syncPull", "pulled", log, NoId, files)
                  /\ localFs' = writeFiles(files, localFs, g.files)
                  /\ authorization' = header
    /\ UNCHANGED <<pushes, envToken, tempDirs, personalAccessToken, gists, nextId, username, savedGistId, includedDirectories,
                   backupDir, backupFs, pull, edits>>

\* the dashboard sends testGitHubAuth: GitHubService.testAuthentication
\* asks GET /user with the token of the message and shows whether the
\* login of the answer is the username of the message
TestAuthentication ==
    /\ pull.pc = "idle"
    /\ ops < MaxOps
    /\ ops' = ops + 1
    /\ \E token \in Tokens, login \in {Me, Other}, ok \in BOOLEAN :
          /\ last' = Last("testAuth",
                          IF ~ok THEN "failed" ELSE IF login = username THEN "ok" ELSE "warning",
                          <<Event("user", NoId, Status(ok), NoBody)>>, NoId, {})
          /\ authorization' = <<"token ">> \o token
    /\ UNCHANGED <<pushes, envToken, tempDirs, personalAccessToken, gists, nextId, username,
                   savedGistId, includedDirectories, localFs, backupDir, backupFs, pull, edits>>

\* pushes, between edits of the local files and of the configuration
Next ==
    \/ Push
    \/ EditLocal
    \/ SaveConfig

Spec == Init /\ [][Next]_vars

\* pulls, between edits of the local files and of the selection
NextPull ==
    \/ PullStart
    \/ PrepareBackup
    \/ BackupStep
    \/ CopyStep
    \/ SyncPull
    \/ TestAuthentication
    \/ EditLocal
    \/ DeleteLocal
    \/ SaveSelections

SpecPull == InitPull /\ [][NextPull]_vars

\* pushes of the payload selections, between changes of the token
NextPayload ==
    \/ PushPayload
    \/ SaveToken

SpecPayload == InitPayload /\ [][NextPayload]_vars

\* ------------------------------------ the temporary directory specification

\* the files of a gist with a directory: the version 3.0 manifest of the
\* directory images and, beside it, an image as raw Base64, neither with a
\* final newline
ImagesFiles ==
    [n \in {SettingsJson, <<"images", ".json">>, <<"images", "_", "a", ".png">>} |->
        IF n = SettingsJson THEN RemoteText
        ELSE IF n = <<"images", ".json">>
        THEN <<"{", "version", "3.0", "directoryName", "images", "images", "[]", "}">>
        ELSE <<"i", "V", "B", "O", "R", "=">>]

\* accounts: none, the owned gist, the owned gist with nested names, the
\* owned gist with a directory; settings directories: in use, with a file
\* snippets where the gist has a directory, with a directory images
InitTemp ==
    /\ InitCommon
    /\ gists \in { <<>>,
                    <<OwnedGist(1, Files2(SettingsJson, KeybindingsJson, RemoteText))>>,
                    <<OwnedGist(1, NestedFiles)>>,
                    <<OwnedGist(1, ImagesFiles)>> }
    /\ localFs \in { UsedLocal,
                      [n \in DOMAIN UsedLocal \cup {Snippets} |->
                          IF n = Snippets THEN RawB ELSE UsedLocal[n]],
                      [n \in DOMAIN UsedLocal \cup {<<"images", "/", "a", ".png">>} |->
                          IF n \in DOMAIN UsedLocal THEN UsedLocal[n] ELSE RawB] }
    /\ includedDirectories \in {{SettingsJson}, {SettingsJson, Snippets},
                                 {SettingsJson, <<"images">>}}

\* a push of the saved selection, in which a request may fail
PushSaved == \E failAt \in 0..MaxFailAt : PushFiles(includedDirectories, failAt)

\* pushes and pulls of PullManager
NextTemp ==
    \/ PushSaved
    \/ PullStart
    \/ PrepareBackup
    \/ BackupStep
    \/ CopyStep

SpecTemp == InitTemp /\ [][NextTemp]_vars

\* ------------------------------------------ the credential specification

\* the owned gist under the saved id; a token that is empty, blank or set,
\* with and without a token in the environment
InitAuth ==
    /\ gists = <<OwnedGist(1, Files2(SettingsJson, KeybindingsJson, RemoteText))>>
    /\ localFs \in InitLocals
    /\ includedDirectories \in {{SettingsJson}, {SettingsJson, KeybindingsJson}}
    /\ personalAccessToken \in {<<>>, <<" ">>, Token1}
    /\ envToken \in {<<>>, <<"ghp_", "env">>}
    /\ savedGistId \in {NoId, 1}
    /\ nextId = InitialIds + 1
    /\ username = Me
    /\ backupDir = FALSE
    /\ backupFs = NoFiles
    /\ pull = Idle
    /\ last = NoLast
    /\ ops = 0
    /\ edits = 0
    /\ tempDirs = {}
    /\ authorization = NoHeader
    /\ pushes = <<>>

SpecAuth == InitAuth /\ [][NextTemp]_vars

\* --------------------------------------- the classification specification

\* the characters of the contents drawn: a letter, white space, line ends
\* and the braces of a JSON object
Chars == {"a", " ", "\n", "\r", "{", "}"}

\* the contents of at most n characters
RECURSIVE Contents(_)
Contents(n) ==
    IF n = 0 THEN {<<>>}
    ELSE Contents(n - 1) \cup {Append(c, x) : c \in Contents(n - 1), x \in Chars}

\* a file of the json and one of the text category
ClassifyNames == {SettingsJson, NotesTxt}

\* a settings directory with one file of any content, and an account
\* without gists
InitClassify ==
    /\ InitCommon
    /\ gists = <<>>
    /\ localFs \in {Files1(n, c) : n \in ClassifyNames, c \in Contents(MaxLen)}
    /\ includedDirectories = ClassifyNames

\* a push of the two names, every request of which is answered
PushClassify == PushFiles(ClassifyNames, 0)

NextClassify == PushClassify

SpecClassify == InitClassify /\ [][NextClassify]_vars

\* -------------------------------------------- the discovery specification

\* the identification files of a listed gist
ListedStorages ==
    { NoStorage, EmptyStorage, BadStorage,
      ConfigStorage(ExtensionName, Me),
      ConfigStorage(OtherCursorName, Me),
      ConfigStorage(OtherCursorName, Other),
      ConfigStorage(UnrelatedName, Me) }
ListedTimestamps == { NoTimestamp, DataTimestamp(ExtensionName, {}) }

ListedGists(id) ==
    {Gist(id, st, ts, NoFiles) : st \in ListedStorages, ts \in ListedTimestamps}

\* the gist lists of a length: the i-th listed gist has id i
RECURSIVE GistLists(_)
GistLists(n) ==
    IF n = 0 THEN {<<>>}
    ELSE {Append(q, g) : q \in GistLists(n - 1), g \in ListedGists(n)}

InitFind ==
    /\ gists \in UNION {GistLists(n) : n \in 0..MaxListLen}
    /\ username \in {Me, NoUser}
    /\ nextId = InitialIds + 1
    /\ personalAccessToken = Token1
    /\ envToken = <<>>
    /\ savedGistId = NoId
    /\ includedDirectories = {}
    /\ localFs = NoFiles
    /\ backupDir = FALSE
    /\ backupFs = NoFiles
    /\ pull = Idle
    /\ last = NoLast
    /\ ops = 0
    /\ edits = 0
    /\ tempDirs = {}
    /\ authorization = NoHeader
    /\ pushes = <<>>

\* one call of findExistingGist on the account
FindOwned ==
    /\ last.op = "none"
    /\ \E listOk \in BOOLEAN :
          last' = Last("find", "none", <<Event("list", NoId, Status(listOk), NoBody)>>,
                       findExistingGist(listOk, gists, ExtensionName, username), {})
    /\ authorization' = getAuthHeader(personalAccessToken, envToken)
    /\ UNCHANGED <<pushes, envToken, tempDirs, personalAccessToken, gists, nextId, username, savedGistId, includedDirectories,
                   localFs, backupDir, backupFs, pull, ops, edits>>

NextFind == FindOwned

SpecFind == InitFind /\ [][NextFind]_vars

\* ------------------------------------------ the overlapping specification

\* A push in flight.  The dashboard does not await pushConfiguration, so the
\* handler of the next message runs at every await of a push.  pc is the
\* request or save the push is about to make; gistId and selection are
\* github.gistId and includedDirectories of the configuration it loaded,
\* files the selection of its message, merged the merged files after the
\* fetch, body the body of the PATCH, queue the gists its cleanup has still
\* to delete, created whether it created a gist.
Invocation(pc, gistId, selection, files) ==
    [pc |-> pc, gistId |-> gistId, selection |-> selection, files |-> files,
     merged |-> NoFiles, body |-> NoBody, queue |-> <<>>, created |-> FALSE,
     outcome |-> "running"]

\* SyncService.pushConfiguration and replaceGistWithMerge from one await to
\* the next, every request answered: what the step leaves of the push, of
\* the account, of github.gistId and includedDirectories in the saved
\* configuration.  ConfigManager.saveConfig writes the whole configuration
\* the push holds in memory.
advance(p, remote, stored, selected, fresh) ==
    LET Out(push, account, id, sel) ==
            [push |-> push, gists |-> account, gistId |-> id, includedDirectories |-> sel]
        Failed == Out([p EXCEPT !.pc = "done", !.outcome = "failed"], remote, stored, selected)
        AfterCleanup(q) ==
            IF q # <<>> THEN [p EXCEPT !.pc = "delete", !.queue = q]
            ELSE IF p.created THEN [p EXCEPT !.pc = "saveNew", !.queue = q]
            ELSE [p EXCEPT !.pc = "done", !.queue = q, !.outcome = "updated"]
    IN CASE p.pc = "find" ->
                LET found == findExistingGist(TRUE, remote, ExtensionName, username)
                IN Out([p EXCEPT !.gistId = found,
                                 !.pc = IF found = NoId THEN "create" ELSE "get"],
                       remote, stored, selected)
         [] p.pc = "get" ->
                IF p.gistId \notin Ids(remote)
                THEN Out([p EXCEPT !.pc = "done", !.outcome = "failed", !.gistId = NoId],
                         remote, NoId, p.selection)
                ELSE IF \/ ~VerifyTimestamp(GistOf(remote, p.gistId), ExtensionName)
                        \/ ~CanExtract(GistOf(remote, p.gistId).files)
                THEN Failed
                ELSE Out([p EXCEPT !.pc = "get2",
                                   !.merged = MergeFiles(GistOf(remote, p.gistId).files,
                                                         convertToGistFormat(processFiles(p.files, localFs)))],
                         remote, stored, selected)
         [] p.pc = "get2" ->
                IF p.gistId \notin Ids(remote) THEN Failed
                ELSE IF TooLarge(Overlay(GistOf(remote, p.gistId).files,
                                         NonEmptyFiles(p.merged)))
                THEN Failed
                ELSE Out([p EXCEPT !.pc = "patch",
                                   !.body = updateGist(GistOf(remote, p.gistId), p.files,
                                                       p.merged, ExtensionName, username)],
                         remote, stored, selected)
         [] p.pc = "patch" ->
                IF p.gistId \notin Ids(remote) THEN Failed
                ELSE Out([p EXCEPT !.pc = "save"],
                         ServerPatch(remote, p.gistId, p.body), stored, selected)
         [] p.pc = "save" ->
                Out([p EXCEPT !.pc = "list"], remote, p.gistId, p.selection)
         [] p.pc = "create" ->
                Out([p EXCEPT !.pc = "list", !.gistId = fresh, !.created = TRUE],
                    ServerCreate(remote, fresh,
                                 createGist(p.files, convertToGistFormat(processFiles(p.files, localFs)),
                                            ExtensionName, username)),
                    stored, selected)
         [] p.pc = "list" ->
                LET old == SelectSeq(remote,
                                     LAMBDA g : IsOldGist(g, p.gistId, ExtensionName))
                IN Out(AfterCleanup([k \in 1..Len(old) |-> old[k].id]),
                       remote, stored, selected)
         [] p.pc = "delete" ->
                Out(AfterCleanup(Tail(p.queue)), ServerDelete(remote, Head(p.queue)),
                    stored, selected)
         [] p.pc = "saveNew" ->
                Out([p EXCEPT !.pc = "done", !.outcome = "created"],
                    remote, p.gistId, p.selection)

\* the dashboard sends pushConfig: extension.ts pushConfiguration loads the
\* configuration; the push runs to its first request
PushBegin ==
    /\ ops < MaxOps
    /\ ops' = ops + 1
    /\ \E files \in PushSelections :
          pushes' = Append(pushes,
                           Invocation(IF savedGistId = NoId THEN "find" ELSE "get",
                                      savedGistId, includedDirectories, files))
    /\ UNCHANGED <<envToken, authorization, tempDirs, personalAccessToken, gists, nextId,
                   username, savedGistId, includedDirectories, localFs, backupDir,
                   backupFs, pull, last, edits>>

\* a push in flight makes its next request or save
PushAdvance ==
    \E i \in 1..Len(pushes) :
       /\ pushes[i].pc # "done"
       /\ pushes[i].pc = "create" => nextId <= InitialIds + MaxCreated
       /\ \E r \in {advance(pushes[i], gists, savedGistId, includedDirectories, nextId)} :
             /\ pushes' = [pushes EXCEPT ![i] = r.push]
             /\ gists' = r.gists
             /\ savedGistId' = r.gistId
             /\ includedDirectories' = r.includedDirectories
       /\ nextId' = IF pushes[i].pc = "create" THEN nextId + 1 ELSE nextId
       /\ authorization' = getAuthHeader(personalAccessToken, envToken)
       /\ UNCHANGED <<envToken, tempDirs, personalAccessToken, username, localFs, backupDir,
                      backupFs, pull, last, ops, edits>>

\* an account without gists or with the owned gist, found or not yet
InitRace ==
    /\ InitCommon
    /\ gists \in { <<>>,
                    <<OwnedGist(1, Files2(SettingsJson, KeybindingsJson, RemoteText))>> }
    /\ savedGistId \in Ids(gists) \cup {NoId}
    /\ localFs = UsedLocal
    /\ includedDirectories = {SettingsJson}

\* pushes that overlap, and changes of the selection between their steps
NextRace ==
    \/ PushBegin
    \/ PushAdvance
    \/ SaveSelections

SpecRace == InitRace /\ [][NextRace]_vars

\* ----------------------------------------------------------------- claims

\* a gist is owned by this extension: its storage file parses and names it
Owned(g) == g.storage.kind = "config" /\ g.storage.extensionName = ExtensionName

OwnedIds(listed) == {listed[i].id : i \in {j \in 1..Len(listed) : Owned(listed[j])}}

\* the step is a push
PushStep == last'.op = "push" /\ ops' = ops + 1

\* the indices of the events of an operation in a log
EventsOf(log, op) == {i \in 1..Len(log) : log[i].op = op}

NoTransientError(log) == \A i \in 1..Len(log) : log[i].status # "error"

\* the local files a push with the selection transmits
Transmitted(files, fs) == convertToGistFormat(processFiles(files, fs))

\* C1: a push that starts with a stored gist id the remote answers
\* not-found for ends with a newly created gist, with the saved id equal to
\* the id of that gist, and not with the not-found failure.
C1_NotFoundSelfHeals ==
    (/\ last.op = "push"
     /\ Len(last.log) >= 1
     /\ last.log[1].op = "get"
     /\ last.log[1].status = "notFound"
     /\ NoTransientError(last.log))
    => /\ last.outcome # "failed"
       /\ \E i \in EventsOf(last.log, "create") :
             /\ last.log[i].status = "ok"
             /\ savedGistId = last.log[i].id
             /\ savedGistId \in Ids(gists)

\* C2: a successful push loses no synced file: every file of the owned gist
\* before the push that is not among the local files the push transmits is
\* held unchanged by an owned gist after the push.
C2_PushKeepsSyncedFiles ==
    [][(PushStep /\ last'.outcome \in {"created", "updated"})
        => \A i \in 1..Len(gists) :
              (Owned(gists[i]) /\ OwnedIds(gists) = {gists[i].id})
              => \A n \in DOMAIN gists[i].files \ DOMAIN Transmitted(last'.files, localFs) :
                    \E j \in 1..Len(gists') :
                       /\ Owned(gists'[j])
                       /\ n \in DOMAIN gists'[j].files
                       /\ gists'[j].files[n] = gists[i].files[n]]_vars

\* C3: the file set a push sends to replace a gist holds every transmitted
\* local file with the local content, every other file of the gist as
\* fetched with its content unchanged, and nothing else.
C3_MergedSetSent ==
    [][PushStep
        => \A k \in EventsOf(last'.log, "patch") :
              LET sent == last'.log[k].body.files
                  remote == GistOf(gists, last'.log[k].id).files
                  local == Transmitted(last'.files, localFs)
              IN /\ DOMAIN sent = DOMAIN local \cup DOMAIN remote
                 /\ \A n \in DOMAIN local : sent[n] = local[n]
                 /\ \A n \in DOMAIN remote \ DOMAIN local : sent[n] = remote[n]]_vars

\* C3 witness: a gist was replaced with the local settings.json over the
\* remote one and the remote keybindings.json kept
C3_Witness ==
    /\ last.op = "push"
    /\ last.files = {SettingsJson}
    /\ \E k \in EventsOf(last.log, "patch") :
          /\ last.log[k].status = "ok"
          /\ DOMAIN last.log[k].body.files = {SettingsJson, KeybindingsJson}
          /\ last.log[k].body.files[SettingsJson] = <<"a", "\n">>
          /\ last.log[k].body.files[KeybindingsJson] = RemoteText

\* C4: in a pull of PullManager, when the pulled content of a target file
\* is written, a file that existed under the settings path when the pull
\* began has a copy in the backup directory equal to its content then.
C4_BackupBeforeOverwrite ==
    [][(pull.pc = "copy" /\ pull' # pull /\ last'.outcome # "failed")
        => LET file == Head(pull.queue)
           IN /\ localFs'[file] = pull.contents[file]
              /\ file \in DOMAIN pull.before
                 => /\ backupDir'
                    /\ file \in DOMAIN backupFs'
                    /\ backupFs'[file] = pull.before[file]]_vars

\* C4 witness: a pull has replaced settings.json, and the backup directory
\* holds the content it had before
C4_Witness ==
    /\ last.op = "pull"
    /\ last.outcome = "pulled"
    /\ localFs[SettingsJson] = RemoteText
    /\ backupDir
    /\ SettingsJson \in DOMAIN backupFs
    /\ backupFs[SettingsJson] = RawA

\* the step is the pull the pullConfig message of the dashboard runs
SyncPullStep == last'.op = "syncPull" /\ ops' = ops + 1

\* C5: the pull that runs on pullConfig leaves a backup copy of every
\* local file it overwrites, equal to the content the file had.
C5_PullConfigBacksUp ==
    [][SyncPullStep
        => \A f \in DOMAIN localFs :
              localFs'[f] # localFs[f]
              => /\ f \in DOMAIN backupFs'
                 /\ backupFs'[f] = localFs[f]]_vars

\* the scope of a selection as the specification words it: the entry
\* itself, a path under it, or its .json counterpart
ClaimInScope(fileName, selection) ==
    \E entry \in selection :
       \/ fileName = entry
       \/ fileName = Append(entry, ".json")
       \/ /\ Len(fileName) > Len(entry) + 1
          /\ SubSeq(fileName, 1, Len(entry)) = entry
          /\ fileName[Len(entry) + 1] = "/"

\* the local files a step wrote, created or removed
Written(fs, fsAfter) ==
    {f \in DOMAIN fs \cup DOMAIN fsAfter :
        ~(f \in DOMAIN fs /\ f \in DOMAIN fsAfter /\ fs[f] = fsAfter[f])}

\* C6: a pull of PullManager writes only files of the fetched gist that
\* are in the scope of the selection and are not the storage or the
\* timestamp file; every other local file stays as it was.
C6_PullWritesOnlyInScope ==
    [][last'.op = "pull"
        => \A f \in Written(localFs, localFs') :
              /\ f \in DOMAIN GistOf(gists, savedGistId).files
              /\ f \notin {STORAGE, TIMESTAMP}
              /\ ClaimInScope(f, includedDirectories)
              /\ localFs'[f] = GistOf(gists, savedGistId).files[f]]_vars

\* C6 witness: with settings.json selected, a pull has replaced it and left
\* keybindings.json, which the gist holds too, as it was
C6_Witness ==
    /\ last.op = "pull"
    /\ last.outcome = "pulled"
    /\ last.files = {SettingsJson}
    /\ savedGistId \in Ids(gists)
    /\ KeybindingsJson \in DOMAIN GistOf(gists, savedGistId).files
    /\ localFs[SettingsJson] = RemoteText
    /\ KeybindingsJson \in DOMAIN localFs
    /\ localFs[KeybindingsJson] = RawB

\* the ids of the gists a push wrote: its create and replace requests
\* that succeeded
WrittenIds(log) ==
    {log[i].id : i \in {j \in EventsOf(log, "create") \cup EventsOf(log, "patch") :
                           log[j].status = "ok"}}

\* C7: after a push that succeeded, with every request of it and of its
\* cleanup answered, exactly one gist of the account is owned by this
\* extension name, and it is the one the push wrote.
C7_OneOwnedAfterPush ==
    (/\ last.op = "push"
     /\ last.outcome \in {"created", "updated"}
     /\ NoTransientError(last.log))
    => /\ OwnedIds(gists) = {savedGistId}
       /\ WrittenIds(last.log) = {savedGistId}

\* C7 witness: a push on an account with three owned gists deleted two
C7_Witness ==
    /\ last.op = "push"
    /\ last.outcome \in {"created", "updated"}
    /\ NoTransientError(last.log)
    /\ Cardinality(EventsOf(last.log, "delete")) = 2
    /\ OwnedIds(gists) = {savedGistId}
    /\ Len(gists) = 1

\* C8: every delete request of a push targets a gist other than the one
\* the push wrote, whose storage file parsed to this extension name when
\* the push began; a gist of another extension name, without a storage
\* file or with one that does not parse is still there after the push.
C8_DeletesOnlyOwnedOthers ==
    [][PushStep
        => /\ \A k \in EventsOf(last'.log, "delete") :
                 /\ last'.log[k].id \notin WrittenIds(last'.log)
                 /\ last'.log[k].id \in Ids(gists)
                 /\ Owned(GistOf(gists, last'.log[k].id))
           /\ \A i \in 1..Len(gists) :
                 (~Owned(gists[i]) /\ gists[i].id \notin WrittenIds(last'.log))
                 => \E j \in 1..Len(gists') : gists'[j] = gists[i]]_vars

\* C8 witness: a push deleted the stale owned gist and left the gist of
\* another extension name and the one with an unparseable storage file
C8_Witness ==
    /\ last.op = "push"
    /\ \E k \in EventsOf(last.log, "delete") : last.log[k].status = "ok"
    /\ \E i, j \in 1..Len(gists) :
          /\ gists[i].storage = BadStorage
          /\ gists[j].storage = ConfigStorage(OtherCursorName, Me)
    /\ OwnedIds(gists) = {savedGistId}

\* the timestamp file of a gist names this extension
ManifestMatches(g) ==
    g.timestamp.kind = "data" /\ g.timestamp.extensionName = ExtensionName

\* the gist a push knows: the saved id, or else what discovery found
KnownId(savedId, found) == IF savedId # NoId THEN savedId ELSE found

Identified(listed) ==
    {i \in 1..Len(listed) :
        /\ listed[i].storage.kind = "config"
        /\ listed[i].storage.extensionName = ExtensionName}

\* C10: on a list with exactly one gist whose storage file names this
\* extension, findExistingGist returns the id of that gist, with or without
\* a timestamp file and whatever gists come before it.
C10_FindsTheOnlyOwned ==
    (/\ last.op = "find"
     /\ last.log[1].status = "ok"
     /\ Cardinality(Identified(gists)) = 1)
    => \A i \in Identified(gists) : last.found = gists[i].id

\* C10 witness: the owned gist has no timestamp file and comes third, after
\* a gist of the same user with a cursor-related name and one whose storage
\* file does not parse
C10_Witness ==
    /\ last.op = "find"
    /\ last.log[1].status = "ok"
    /\ Len(gists) = 3
    /\ username = Me
    /\ gists[1].storage = ConfigStorage(OtherCursorName, Me)
    /\ gists[1].timestamp.kind = "data"
    /\ gists[2].storage = BadStorage
    /\ gists[3].storage = ConfigStorage(ExtensionName, Me)
    /\ gists[3].timestamp = NoTimestamp
    /\ last.found = 3

\* the family keywords of tier 3
FamilyKeywords == {"cursor", "git", "sync"}

\* the indices of the gists of a list that match a tier, as the
\* specification words the tiers
TierMatches(listed, tier) ==
    {i \in 1..Len(listed) :
        LET st == listed[i].storage
            exact == st.kind = "config" /\ st.extensionName = ExtensionName
        IN CASE tier = 1 -> exact /\ listed[i].timestamp.kind # "absent"
             [] tier = 2 -> exact
             [] tier = 3 -> /\ st.kind = "config"
                            /\ username # NoUser
                            /\ st.username = username
                            /\ \E j \in 1..Len(st.extensionName) :
                                  st.extensionName[j] \in FamilyKeywords
             [] OTHER -> st.kind # "absent"}

\* the most specific tier that has a match on the list, 0 when none has
BestTier(listed) ==
    IF \A t \in 1..4 : TierMatches(listed, t) = {} THEN 0
    ELSE CHOOSE t \in 1..4 :
            /\ TierMatches(listed, t) # {}
            /\ \A u \in 1..(t - 1) : TierMatches(listed, u) = {}

\* C11: findExistingGist returns a gist of the most specific tier that has
\* a match on the list, whatever the order of the list, and returns null
\* exactly when no gist of the list has a storage file.
C11_MostSpecificTier ==
    (last.op = "find" /\ last.log[1].status = "ok")
    => /\ (last.found = NoId) <=> (\A i \in 1..Len(gists) : gists[i].storage.kind = "absent")
       /\ last.found # NoId
          => \E i \in TierMatches(gists, BestTier(gists)) : gists[i].id = last.found

\* C11 witness: the gist of tier 3 is returned although a gist that only
\* tier 4 matches comes before it
C11_Witness ==
    /\ last.op = "find"
    /\ last.log[1].status = "ok"
    /\ Len(gists) = 2
    /\ gists[1].storage = BadStorage
    /\ gists[2].storage = ConfigStorage(OtherCursorName, Me)
    /\ username = Me
    /\ last.found = 2

\* C12: findExistingGist never returns the id of a gist whose storage file
\* does not parse.
C12_UnparseableNeverFound ==
    (last.op = "find" /\ last.found # NoId)
    => \A i \in 1..Len(gists) :
          gists[i].id = last.found => gists[i].storage.kind # "bad"

\* the indices of the create and replace requests of a log
Payloads(log) == EventsOf(log, "create") \cup EventsOf(log, "patch")

C14_ReservedFilesGenerated ==
    [][PushStep
        => \A k \in Payloads(last'.log) :
              /\ last'.log[k].body.storage = ConfigStorage(ExtensionName, username)
              /\ last'.log[k].body.timestamp.kind = "data"
              /\ last'.log[k].body.timestamp.extensionName = ExtensionName]_vars

\* C15: in every request body of a push with a generated timestamp file,
\* the files list of the timestamp file is the set of the names of the
\* other files of the body.
C15_TimestampListsPayload ==
    [][PushStep
        => \A k \in Payloads(last'.log) :
              last'.log[k].body.timestamp.kind = "data"
              => last'.log[k].body.timestamp.files = DOMAIN last'.log[k].body.files]_vars

\* C16: a push that would send a file larger than maxFileSize fails and
\* issues no create and no replace request.
C16_TooLargeFails ==
    [][PushStep
        => ((\E n \in DOMAIN Transmitted(last'.files, localFs) :
                ByteLength(Transmitted(last'.files, localFs)[n]) > maxFileSize)
            => /\ last'.outcome = "failed"
               /\ Payloads(last'.log) = {})]_vars

\* the step begins a pull of PullManager
PullBegins == last'.op = "pull" /\ ops' = ops + 1

\* the step leaves the local files, the backup directory and the account
\* as they are, and ends the pull
NothingTouched ==
    /\ localFs' = localFs
    /\ backupDir' = backupDir
    /\ backupFs' = backupFs
    /\ gists' = gists
    /\ savedGistId' = savedGistId
    /\ pull' = Idle

\* the gist a pull fetched: the request was issued and answered
Fetched(log) == Len(log) = 1 /\ log[1].op = "get" /\ log[1].status = "ok"

\* C17: a pull that fetched a gist whose timestamp file is absent or has
\* empty content, with a file in the scope of the selection, does not fail:
\* it goes on to the restore.
C17_MissingManifestTolerated ==
    [][(/\ PullBegins
        /\ Fetched(last'.log)
        /\ GistOf(gists, savedGistId).timestamp.kind \in {"absent", "empty"}
        /\ \E n \in DOMAIN GistOf(gists, savedGistId).files :
              ClaimInScope(n, includedDirectories))
        => /\ last'.outcome = "running"
           /\ pull'.pc # "idle"]_vars

\* C18: a pull that fetched a gist whose timestamp file names another
\* extension fails: no local file is written, the backup directory is
\* neither created nor changed, and the fetch is its only request.
C18_IdentityMismatchFails ==
    [][(/\ PullBegins
        /\ Fetched(last'.log)
        /\ GistOf(gists, savedGistId).timestamp.kind = "data"
        /\ GistOf(gists, savedGistId).timestamp.extensionName # ExtensionName)
        => /\ last'.outcome = "failed"
           /\ NothingTouched]_vars

\* C18 witness: a pull of the gist of another extension failed and left
\* the local settings.json as it was
C18_Witness ==
    /\ last.op = "pull"
    /\ last.outcome = "failed"
    /\ Fetched(last.log)
    /\ GistOf(gists, savedGistId).timestamp = DataTimestamp(OtherCursorName, {SettingsJson})
    /\ last.files = {SettingsJson}
    /\ SettingsJson \in DOMAIN localFs
    /\ localFs[SettingsJson] = RawA
    /\ ~backupDir
    /\ pull = Idle

\* C19: a pull that fetched a gist none of whose files is in the scope of
\* the selection fails, and has written no local file, not created the
\* backup directory and removed no backup copy.
C19_NoMatchingSelectionFails ==
    [][(/\ PullBegins
        /\ Fetched(last'.log)
        /\ \A n \in DOMAIN GistOf(gists, savedGistId).files :
              ~ClaimInScope(n, includedDirectories))
        => /\ last'.outcome = "failed"
           /\ NothingTouched]_vars

\* C19 witness: after a pull that made a backup copy, a pull with a
\* selection that matches no file of the gist failed and the copy is there
C19_Witness ==
    /\ last.op = "pull"
    /\ last.outcome = "failed"
    /\ Fetched(last.log)
    /\ last.files = {NotesTxt, Snippets}
    /\ GistOf(gists, savedGistId).timestamp.extensionName = ExtensionName
    /\ backupDir
    /\ SettingsJson \in DOMAIN backupFs
    /\ backupFs[SettingsJson] = RawA
    /\ pull = Idle

\* C20: a pull without a saved gist id or with an empty selection fails at
\* once: it issues no request, writes no local file and leaves the backup
\* directory as it is.
C20_PreconditionsFail ==
    [][(PullBegins /\ (savedGistId = NoId \/ includedDirectories = {}))
        => /\ last'.outcome = "failed"
           /\ last'.log = <<>>
           /\ NothingTouched]_vars

\* C20 witness: with a saved gist id and an empty selection, a pull failed
\* without a request
C20_Witness ==
    /\ last.op = "pull"
    /\ last.outcome = "failed"
    /\ last.log = <<>>
    /\ savedGistId # NoId
    /\ includedDirectories = {}
    /\ localFs = UsedLocal
    /\ pull = Idle

\* the target files of a pull
Targets(p) == {p.targets[i] : i \in 1..Len(p.targets)}

\* the step writes the last target file of a pull of PullManager
PullCompletes == pull.pc = "copy" /\ pull'.pc = "idle" /\ last'.outcome = "pulled"

\* C21: when a pull of PullManager completes, the backup directory holds,
\* for every target file, the content the file had when this pull began and
\* no copy from an earlier pull: a target that did not exist then has no
\* backup copy.  The preparation keeps an existing backup directory and the
\* copies in it of files that are not targets.
C21_LastBackupWins ==
    [][/\ PullCompletes
          => \A t \in Targets(pull) :
                IF t \in DOMAIN pull.before
                THEN t \in DOMAIN backupFs' /\ backupFs'[t] = pull.before[t]
                ELSE t \notin DOMAIN backupFs'
       /\ (pull.pc = "prepare" /\ pull' # pull)
          => /\ backupDir'
             /\ backupDir
                => \A n \in DOMAIN backupFs \ Targets(pull) :
                      n \in DOMAIN backupFs' /\ backupFs'[n] = backupFs[n]]_vars

\* C21 witness: the second of two pulls of settings.json has completed, and
\* the backup copy is the content the first pull had written, not the one
\* the first pull had backed up
C21_Witness ==
    /\ last.op = "pull"
    /\ last.outcome = "pulled"
    /\ ops = 2
    /\ edits = 0
    /\ last.files = {SettingsJson}
    /\ backupDir
    /\ KeybindingsJson \in DOMAIN localFs
    /\ DOMAIN backupFs = {SettingsJson}
    /\ backupFs[SettingsJson] = RemoteText
    /\ RemoteText # RawA

\* JSON.parse accepts the content; of the contents over Chars these are the
\* empty object, with white space around and between its braces
JsonParses(content) ==
    LET text == Trim(content)
    IN /\ Len(text) >= 2
       /\ text[1] = "{"
       /\ text[Len(text)] = "}"
       /\ \A i \in 2..(Len(text) - 1) : IsSpace(text[i])

\* C22: a selected local file of the json category whose content does not
\* parse as JSON is classified invalid, and no request body of the push
\* holds a file of its name.
C22_MalformedJsonExcluded ==
    [][PushStep
        => \A n \in last'.files \cap DOMAIN localFs :
              (getFileType(n) = "json" /\ ~JsonParses(localFs[n]))
              => /\ ~processSingleFile(n, localFs[n]).valid
                 /\ \A k \in Payloads(last'.log) :
                       n \notin DOMAIN last'.log[k].body.files]_vars

\* C23: the content a push transmits for a valid text file is what the
\* classification of the local content produced, and classifying it again
\* yields exactly that content, valid.
C23_TextClassifyIdempotent ==
    [][PushStep
        => \A k \in Payloads(last'.log) :
              \A n \in DOMAIN last'.log[k].body.files \cap DOMAIN localFs :
                 getFileType(n) = "text"
                 => LET sent == last'.log[k].body.files[n]
                    IN /\ processSingleFile(n, localFs[n]).valid
                       /\ sent = processSingleFile(n, localFs[n]).content
                       /\ processSingleFile(n, sent) = ProcessedFile(sent, "text", TRUE)]_vars

\* C23 witness: a push has sent notes.txt, read with a carriage return in
\* it and without a final newline, with newlines
C23_Witness ==
    /\ last.op = "push"
    /\ NotesTxt \in DOMAIN localFs
    /\ localFs[NotesTxt] = <<" ", "a", "\r">>
    /\ \E k \in EventsOf(last.log, "create") :
          /\ last.log[k].status = "ok"
          /\ NotesTxt \in DOMAIN last.log[k].body.files
          /\ last.log[k].body.files[NotesTxt] = <<"a", "\n">>

\* C24: the content a push transmits for a local file of the json category
\* is the content of the local file, character for character.
C24_JsonSentUnchanged ==
    [][PushStep
        => \A k \in Payloads(last'.log) :
              \A n \in DOMAIN Transmitted(last'.files, localFs) :
                 getFileType(n) = "json"
                 => /\ n \in DOMAIN last'.log[k].body.files
                    /\ last'.log[k].body.files[n] = localFs[n]]_vars

\* C25: whenever no invocation is running, that is at the end of every push
\* and of every pull, whether it succeeded, failed or threw, no temporary
\* directory is left; while a pull runs, its directory is the only one.
C25_TempDirsRemoved ==
    /\ pull.pc = "idle" => tempDirs = {}
    /\ pull.pc # "idle" => tempDirs = {"cursor-sync-pull-"}

\* C25 witness: a pull that had made its temporary directory and prepared
\* the backup directory threw on a copy, and its directory is gone
C25_Witness ==
    /\ last.op = "pull"
    /\ last.outcome = "failed"
    /\ Fetched(last.log)
    /\ pull = Idle
    /\ backupDir
    /\ Snippets \in DOMAIN localFs
    /\ tempDirs = {}

\* the credential the resolution order names: the explicit token when it is
\* not blank, else the token of the environment, else none
Credential ==
    IF Trim(personalAccessToken) # <<>> THEN personalAccessToken
    ELSE envToken

\* the step starts a push or a pull
InvocationStarts == ops' = ops + 1 /\ last'.op \in {"push", "pull"}

\* C26: a push or a pull that starts with a credential issues its requests
\* with that credential, the explicit token before the one of the
\* environment; one that starts without any fails and issues no request.
C26_CredentialOrder ==
    [][InvocationStarts
        => IF Credential = <<>>
           THEN last'.outcome = "failed" /\ last'.log = <<>>
           ELSE (last'.op = "push" \/ PullPreconditions(savedGistId, includedDirectories))
                => /\ last'.log # <<>>
                   /\ authorization' = <<"token ">> \o Credential]_vars

\* C27: the timestamp file a push generates carries the selection of the
\* device, in a field of its own or as its files list, and the storage
\* file of the same request body does not carry it.
C27_TimestampCarriesSelection ==
    [][PushStep
        => \A k \in Payloads(last'.log) :
              LET body == last'.log[k].body
              IN body.timestamp.kind = "data"
                 => /\ \/ body.timestamp.includedDirectories = Defined(includedDirectories)
                       \/ body.timestamp.files = includedDirectories
                    /\ body.storage.includedDirectories = Undefined]_vars

\* the files of a gist that belong to a directory: its manifest and the
\* images beside it
DirectoryEntries(files) ==
    {n \in DOMAIN files : n = <<"images", ".json">> \/ StartsWith(n, <<"images", "_">>)}

\* C28: a push that follows a completed pull of PullManager, with nothing
\* changed locally in between, leaves every directory manifest and every
\* image entry of the gist on the account, with the content it had.
C28_DirectoryRoundTrip ==
    [][(PushStep /\ last.op = "pull" /\ last.outcome = "pulled")
        => /\ savedGistId \in Ids(gists')
           /\ \A n \in DirectoryEntries(GistOf(gists, savedGistId).files) :
                 /\ n \in DOMAIN GistOf(gists', savedGistId).files
                 /\ GistOf(gists', savedGistId).files[n]
                       = GistOf(gists, savedGistId).files[n]]_vars

\* C28 witness: the manifest was pulled into the settings directory, the
\* push that followed replaced the gist, and the gist holds the manifest
\* and the image as before
C28_Witness ==
    /\ last.op = "push"
    /\ last.outcome = "updated"
    /\ last.files = {SettingsJson, <<"images">>}
    /\ backupDir
    /\ <<"images", ".json">> \in DOMAIN localFs
    /\ localFs[<<"images", ".json">>] = ImagesFiles[<<"images", ".json">>]
    /\ \E k \in EventsOf(last.log, "patch") :
          /\ last.log[k].status = "ok"
          /\ DirectoryEntries(last.log[k].body.files)
                = {<<"images", ".json">>, <<"images", "_", "a", ".png">>}
    /\ savedGistId \in Ids(gists)
    /\ Restrict(GistOf(gists, savedGistId).files, DirectoryEntries(ImagesFiles))
          = Restrict(ImagesFiles, DirectoryEntries(ImagesFiles))

\* C29: in a push that creates a gist, the id of the new gist is saved to
\* the configuration after the create request and before the first delete
\* request of the cleanup.
C29_PersistBeforeCleanup ==
    [][PushStep
        => \A c \in EventsOf(last'.log, "create") :
              last'.log[c].status = "ok"
              => \A d \in EventsOf(last'.log, "delete") :
                    \E sv \in EventsOf(last'.log, "save") :
                       /\ c < sv
                       /\ sv < d
                       /\ last'.log[sv].id = last'.log[c].id]_vars

\* C30: every delete request of a push comes after a create or replace
\* request of the same push that succeeded; a create or replace request
\* that failed is the last request of the push, and the account is left as
\* it was.
C30_CleanupAfterWrite ==
    [][PushStep
        => /\ \A d \in EventsOf(last'.log, "delete") :
                 \E w \in Payloads(last'.log) : w < d /\ last'.log[w].status = "ok"
           /\ \A w \in Payloads(last'.log) :
                 last'.log[w].status # "ok"
                 => /\ \A i \in (w + 1)..Len(last'.log) : ~IsRequest(last'.log[i])
                    /\ gists' = gists
                    /\ last'.outcome = "failed"]_vars

\* C30 witness: on an account with three owned gists the replace request of
\* a push failed, and no gist was deleted
C30_Witness ==
    /\ last.op = "push"
    /\ last.outcome = "failed"
    /\ \E w \in EventsOf(last.log, "patch") : last.log[w].status = "error"
    /\ EventsOf(last.log, "delete") = {}
    /\ Cardinality(OwnedIds(gists)) = 3

\* C31: when the cleanup of a push has listed the gists, every gist of the
\* list that is owned by this extension name and is not the one the push
\* wrote gets a delete request after the list, whether a gist listed before
\* it has a storage file that does not parse or a delete request before it
\* failed.
C31_CleanupScansEveryGist ==
    [][PushStep
        => \A k \in EventsOf(last'.log, "list") :
              (k > 1 /\ last'.log[k].status = "ok")
              => \A i \in 1..Len(gists) :
                    (Owned(gists[i]) /\ gists[i].id \notin WrittenIds(last'.log))
                    => \E d \in EventsOf(last'.log, "delete") :
                          d > k /\ last'.log[d].id = gists[i].id]_vars

\* C31 witness: the cleanup of a push deleted an owned gist that is listed
\* after a gist whose storage file does not parse
C31_Witness ==
    /\ last.op = "push"
    /\ \E k \in EventsOf(last.log, "list"), d \in EventsOf(last.log, "delete") :
          /\ k > 1
          /\ d > k
          /\ last.log[d].status = "ok"
          /\ last.log[d].id = 1
    /\ \E i \in 1..Len(gists) : gists[i].storage = BadStorage
    /\ 1 \notin Ids(gists)

\* C32: in a pull of PullManager, when a file that is not a directory
\* manifest is written to the settings directory, no manifest file among
\* the files to restore is still to be written: each is in the settings
\* directory with the pulled content.
C32_ManifestsWrittenFirst ==
    [][(pull.pc = "copy" /\ localFs' # localFs /\ pull.queue # <<>>
          /\ ~isManifestFile(pull.contents[Head(pull.queue)]))
        => \A i \in 1..Len(pull.targets) :
              isManifestFile(pull.contents[pull.targets[i]])
              => /\ \A j \in 1..Len(pull.queue) : pull.queue[j] # pull.targets[i]
                 /\ pull.targets[i] \in DOMAIN localFs
                 /\ localFs[pull.targets[i]] = pull.contents[pull.targets[i]]]_vars

\* C32 witness: of the files to restore, settings.json first and the
\* manifest images.json second, the manifest is written and settings.json
\* is still to be written
C32_Witness ==
    /\ pull.pc = "copy"
    /\ pull.targets = <<SettingsJson, <<"images", ".json">> >>
    /\ pull.queue = <<SettingsJson>>
    /\ <<"images", ".json">> \in DOMAIN localFs
    /\ localFs[<<"images", ".json">>] = ImagesFiles[<<"images", ".json">>]
    /\ isManifestFile(localFs[<<"images", ".json">>])
    /\ localFs[SettingsJson] # pull.contents[SettingsJson]

\* a push issued at most one create request and at most one replace
\* request, and both only after the fetch of the stored id was answered
\* not-found
OneWritePerPush ==
    last.op = "push"
    => /\ Cardinality(EventsOf(last.log, "create")) <= 1
       /\ Cardinality(EventsOf(last.log, "patch")) <= 1
       /\ (EventsOf(last.log, "create") # {} /\ EventsOf(last.log, "patch") # {})
          => (last.log[1].op = "get" /\ last.log[1].status = "notFound")

C34_DiscoveryAgreesWithVerify ==
    [][(PushStep /\ last'.found # NoId)
        => VerifyTimestamp(GistOf(gists, last'.found), ExtensionName)]_vars

\* C35: when two pushes that overlapped have both completed, a gist owned
\* by this extension name is on the account and the saved gist id is the id
\* of a gist of the account.
C35_OverlappingPushesKeepOne ==
    (/\ Len(pushes) = 2
     /\ \A i \in 1..Len(pushes) : pushes[i].pc = "done")
    => /\ OwnedIds(gists) # {}
       /\ savedGistId \in Ids(gists)

\* C36: no step of a push changes the saved selection: a selection saved
\* while a push is in flight is the saved selection after the push.
C36_PushSavesOnlyTheId ==
    [][includedDirectories' # includedDirectories => edits' = edits + 1]_vars

\* C37: a backup copy of a file that does not exist in the settings
\* directory is not removed: no step of a pull takes it from the backup
\* directory or changes it.
C37_BackupKeptWithoutLocalFile ==
    [][\A n \in DOMAIN backupFs :
          n \notin DOMAIN localFs
          => /\ n \in DOMAIN backupFs'
             /\ backupFs'[n] = backupFs[n]]_vars

\* C38: a step of a pull or of the credential probe leaves the gists of
\* the account and the saved gist id as they are, and none of its requests
\* is a create, a replace or a delete request, nor does it save the
\* configuration.
C38_PullAndProbeReadOnly ==
    [][(ops' = ops + 1 \/ pull.pc # "idle")
        => /\ gists' = gists
           /\ savedGistId' = savedGistId
           /\ nextId' = nextId
           /\ last'.op \in {"pull", "syncPull", "testAuth"}
           /\ \A k \in 1..Len(last'.log) : last'.log[k].op \in {"get", "user"}]_vars

\* C38 witness: the fetch of a pull was answered not-found, and the saved
\* gist id is still the id that no gist of the account has
C38_Witness ==
    /\ last.op \in {"pull", "syncPull"}
    /\ Len(last.log) = 1
    /\ last.log[1].status = "notFound"
    /\ savedGistId = last.log[1].id
    /\ savedGistId # NoId
    /\ savedGistId \notin Ids(gists)
    /\ gists # <<>>

====
